---- MODULE Spec2Model ----
(***************************************************************************)
(* Weather Now (src/src/App.tsx): the search-to-weather pipeline of the    *)
(* App component.  The component's React state, the debounce timers of     *)
(* the query effect, the geocoding lookups and the weather fetches in      *)
(* flight are the state; every event handler of the UI event loop (input   *)
(* change, timer callback, promise continuation, click) is one action.     *)
(***************************************************************************)
EXTENDS Integers, Sequences, FiniteSets, TLC

\* ------------------------------------------------------------------------
\* Bounds of the model
\* ------------------------------------------------------------------------
MaxLookups == 3      \* lookup requests issued in one behaviour
MaxPicks == 3        \* selections (handlePick calls) in one behaviour
MaxHours == 14       \* longest hourly series given to next12Hours
MaxDeg == 720        \* degToCompass is applied to -MaxDeg..MaxDeg
MaxCode == 100       \* weather codes -1..MaxCode are looked up
MaxTicks == 2        \* observed advances of the clock in one behaviour

\* ------------------------------------------------------------------------
\* Values
\* ------------------------------------------------------------------------
Null == [null |-> TRUE]

GEO_BASE == "https://geocoding-api.open-meteo.com/v1/search"
WX_BASE == "https://api.open-meteo.com/v1/forecast"

\* Texts the user can have in the input box.
Queries == {"", "Lon", "London"}

\* The same texts and a shorter one that more places match than a lookup
\* asks for.
SearchQueries == Queries \cup {"L"}

\* Place (interface Place): the places the geocoding service knows.
LondonUK == [id |-> 1, name |-> "London", latitude |-> 51, longitude |-> 0]
LongBeach == [id |-> 2, name |-> "Long Beach", latitude |-> 33, longitude |-> -118]
Lagos == [id |-> 3, name |-> "Lagos", latitude |-> 6, longitude |-> 3]
Lima == [id |-> 4, name |-> "Lima", latitude |-> -12, longitude |-> -77]
Lisbon == [id |-> 5, name |-> "Lisbon", latitude |-> 39, longitude |-> -9]
Lyon == [id |-> 6, name |-> "Lyon", latitude |-> 46, longitude |-> 5]
Places == {LondonUK, LongBeach, Lagos, Lima, Lisbon, Lyon}

Units == {"C", "F"}

\* Number.prototype.toString for the integers used as coordinates.
Digit(d) ==
  CASE d = 0 -> "0" [] d = 1 -> "1" [] d = 2 -> "2" [] d = 3 -> "3"
    [] d = 4 -> "4" [] d = 5 -> "5" [] d = 6 -> "6" [] d = 7 -> "7"
    [] d = 8 -> "8" [] d = 9 -> "9"

RECURSIVE NatToString(_)
NatToString(n) ==
  IF n < 10 THEN Digit(n) ELSE NatToString(n \div 10) \o Digit(n % 10)

NumToString(n) == IF n < 0 THEN "-" \o NatToString(-n) ELSE NatToString(n)

\* Timestamps of the hourly series, "2024-01-01Thh:00", for the hour h.
HourString(h) ==
  "2024-01-01T" \o (IF h < 10 THEN "0" ELSE "") \o NatToString(h) \o ":00"

\* new Date(iso).getTime(), counted in minutes since 2024-01-01T00:00.
DateGetTime(iso) == 60 * (CHOOSE h \in 0..23 : HourString(h) = iso)

\* Date.now() when the component is mounted: 2024-01-01T10:30.
NowStart == 630

\* Date.now() is observed in steps of half an hour.
TickMinutes == 30

\* encodeURIComponent on the query texts: letters are unreserved and kept.
EncodeURIComponent(q) ==
  CASE q = "Lon" -> "Lon"
    [] q = "London" -> "London"
    [] q = "L" -> "L"
    [] OTHER -> ""

\* The lookup request of the timer callback: endpoint and query parameters.
GeoRequestCount10(q) ==
  [base |-> GEO_BASE, name |-> EncodeURIComponent(q), count |-> 10,
   language |-> "en", format |-> "json"]

GeoRequest(q) ==
  [base |-> GEO_BASE, name |-> EncodeURIComponent(q), count |-> 5,
   language |-> "en", format |-> "json"]

\* The weather request of handlePick: endpoint and the URLSearchParams.
WxRequestSwapped(place) ==
  [base |-> WX_BASE,
   latitude |-> NumToString(place.longitude),
   longitude |-> NumToString(place.latitude),
   current |-> "temperature_2m,apparent_temperature,is_day,weather_code,wind_speed_10m,wind_direction_10m,relative_humidity_2m",
   hourly |-> "temperature_2m,precipitation_probability,relative_humidity_2m",
   timezone |-> "auto"]

WxRequest(place) ==
  [base |-> WX_BASE,
   latitude |-> NumToString(place.latitude),
   longitude |-> NumToString(place.longitude),
   current |-> "temperature_2m,apparent_temperature,is_day,weather_code,wind_speed_10m,wind_direction_10m,relative_humidity_2m",
   hourly |-> "temperature_2m,precipitation_probability,relative_humidity_2m",
   timezone |-> "auto"]

\* ------------------------------------------------------------------------
\* The two collaborating services (deterministic upstream data)
\* ------------------------------------------------------------------------
\* Place lookup service: the places matching a name, best match first.
GeoMatches(name) ==
  CASE name = "L" -> <<LondonUK, LongBeach, Lagos, Lima, Lisbon, Lyon>>
    [] name = "Lon" -> <<LondonUK, LongBeach>>
    [] name = "London" -> <<LondonUK>>
    [] OTHER -> <<>>

\* Place lookup service: the `results` field of a successful response, the
\* first `count` matches of the requested name.
GeoResults(req) ==
  LET all == GeoMatches(req.name)
  IN  IF Len(all) <= req.count THEN all ELSE SubSeq(all, 1, req.count)

\* Weather service: the WeatherData of a successful response.
WxData(req) ==
  CASE req.latitude = "51" /\ req.longitude = "0" ->
         [current |-> [temperature_2m |-> 15, apparent_temperature |-> 10,
                       is_day |-> 1, weather_code |-> 3, wind_speed_10m |-> 12,
                       wind_direction_10m |-> 225, relative_humidity_2m |-> 80],
          hourly |-> [time |-> <<HourString(10), HourString(11)>>,
                      temperature_2m |-> <<15, 20>>,
                      precipitation_probability |-> <<30, 60>>]]
    [] req.latitude = "33" /\ req.longitude = "-118" ->
         [current |-> [temperature_2m |-> 25, apparent_temperature |-> 30,
                       is_day |-> 0, weather_code |-> 0, wind_speed_10m |-> 5,
                       wind_direction_10m |-> 90, relative_humidity_2m |-> 40],
          hourly |-> [time |-> <<HourString(10), HourString(11)>>,
                      temperature_2m |-> <<25, 20>>]]
    [] OTHER ->
         [current |-> [temperature_2m |-> 0, apparent_temperature |-> 0,
                       is_day |-> 0, weather_code |-> 99, wind_speed_10m |-> 0,
                       wind_direction_10m |-> 0, relative_humidity_2m |-> 0],
          hourly |-> [time |-> <<>>, temperature_2m |-> <<>>]]

\* What the lookup's try block throws: fetch's TypeError on a network error,
\* the Error of the !res.ok branch, the AbortError of an aborted fetch.
LookupFailures ==
  { [isError |-> TRUE, name |-> "TypeError"],
    [isError |-> TRUE, name |-> "Error"] }

AbortError == [isError |-> TRUE, name |-> "AbortError"]

\* What a failing weather fetch throws: fetch's own TypeError, the Error of
\* the !wxRes.ok branch, an Error with an empty message, a non-Error value.
WxFailures ==
  { [isError |-> TRUE, message |-> "Failed to fetch"],
    [isError |-> TRUE, message |-> "Failed to fetch weather"],
    [isError |-> TRUE, message |-> ""],
    [isError |-> FALSE, message |-> "thrown"] }

\* ------------------------------------------------------------------------
\* State
\* ------------------------------------------------------------------------
VARIABLES
  query,          \* useState query
  suggestions,    \* useState suggestions (sequence of Place)
  selectedPlace,  \* useState selectedPlace (Place or Null)
  weather,        \* useState weather (WeatherData or Null)
  unit,           \* useState unit
  loading,        \* useState loading
  error,          \* useState error
  abortRef,       \* abortRef.current: id of the AbortController, 0 = null
  timers,         \* pending setTimeout callbacks: [id, q (query of the closure)]
  effectTimer,    \* handle t held by the cleanup of the last effect run, 0 = none
  lookups,        \* lookup fetches not yet settled: [id, req, aborted]
  nLookups,       \* number of lookup requests issued so far
  wxInFlight,     \* weather fetches not yet settled: [id, req, place]
  logged,         \* number of console.error calls
  picked,         \* history: the places handlePick was called with, in order
  lastWx,         \* history: the last event of handlePick, [ev, id]
  anyFailed,      \* history: some weather fetch has failed
  failedBeforePick, \* history: a weather fetch had failed before the last pick
  coalesced,      \* history: the pending or last fired timer replaced a
                  \* timer that was cleared while pending
  now,            \* Date.now()
  next12Hours,    \* useMemo next12Hours: the memoized hourly list
  arg,            \* input of a view function applied on its own
  result          \* its result, Pending before it is applied

vars == <<query, suggestions, selectedPlace, weather, unit, loading, error,
          abortRef, timers, effectTimer, lookups, nLookups, wxInFlight,
          logged, picked, lastWx, anyFailed, failedBeforePick, coalesced,
          now, next12Hours, arg, result>>

weatherVars == <<selectedPlace, weather, loading, error, wxInFlight, picked,
                 lastWx, anyFailed, failedBeforePick>>

viewVars == <<now, next12Hours, arg, result>>

Pending == [pending |-> TRUE]

\* The result once the function has returned v.
Returned(v) == [value |-> v]

\* The state of the component when it is mounted.
Mounted ==
  /\ query = ""
  /\ suggestions = <<>>
  /\ selectedPlace = Null
  /\ weather = Null
  /\ unit = "C"
  /\ loading = FALSE
  /\ error = ""
  /\ abortRef = 0
  /\ timers = {}
  /\ effectTimer = 0
  /\ lookups = {}
  /\ nLookups = 0
  /\ wxInFlight = {}
  /\ logged = 0
  /\ picked = <<>>
  /\ lastWx = [ev |-> "none", id |-> 0]
  /\ anyFailed = FALSE
  /\ failedBeforePick = FALSE
  /\ coalesced = FALSE
  /\ now = NowStart
  /\ next12Hours = <<>>

Init ==
  /\ Mounted
  /\ arg = Null
  /\ result = Pending

\* ------------------------------------------------------------------------
\* Forecast View Model
\* ------------------------------------------------------------------------
\* cToF on the Celsius values of WxData (multiples of 5, so c * 9 / 5 is exact).
cToF(c) == (c * 9) \div 5 + 32

\* The dirs table of degToCompass.
Dirs ==
  <<"N", "NNE", "NE", "ENE", "E", "ESE", "SE", "SSE",
    "S", "SSW", "SW", "WSW", "W", "WNW", "NW", "NNW">>

\* Math.round(deg / 22.5) for an integer deg: floor(deg / 22.5 + 1/2).
RoundSector(deg) == (4 * deg + 45) \div 90

\* The JavaScript remainder a % b (b > 0): it has the sign of a.
JsRem(a, b) == IF a >= 0 THEN a % b ELSE -((-a) % b)

\* dirs[i] for an integer i: undefined outside 0..15.
DirsAt(i) == IF i \in 0..15 THEN Dirs[i + 1] ELSE "undefined"

\* degToCompass(deg) == dirs[Math.round(deg / 22.5) % 16].
degToCompassNoModulo(deg) == DirsAt(RoundSector(deg))

degToCompass(deg) == DirsAt(JsRem(RoundSector(deg), 16))

\* The WEATHER_CODE table.
WEATHER_CODE ==
  (0 :> "Clear sky") @@ (1 :> "Mainly clear") @@ (2 :> "Partly cloudy")
  @@ (3 :> "Overcast") @@ (45 :> "Fog") @@ (48 :> "Depositing rime fog")
  @@ (51 :> "Light drizzle") @@ (53 :> "Moderate drizzle")
  @@ (55 :> "Dense drizzle") @@ (56 :> "Light freezing drizzle")
  @@ (57 :> "Dense freezing drizzle") @@ (61 :> "Slight rain")
  @@ (63 :> "Moderate rain") @@ (65 :> "Heavy rain")
  @@ (66 :> "Light freezing rain") @@ (67 :> "Heavy freezing rain")
  @@ (71 :> "Slight snow fall") @@ (73 :> "Moderate snow fall")
  @@ (75 :> "Heavy snow fall") @@ (77 :> "Snow grains")
  @@ (80 :> "Slight rain showers") @@ (81 :> "Moderate rain showers")
  @@ (82 :> "Violent rain showers") @@ (85 :> "Slight snow showers")
  @@ (86 :> "Heavy snow showers") @@ (95 :> "Thunderstorm")
  @@ (96 :> "Thunderstorm with slight hail")
  @@ (99 :> "Thunderstorm with heavy hail")

\* WEATHER_CODE[code]: a property the object does not have is undefined.
TableLookup(code) ==
  IF code \in DOMAIN WEATHER_CODE THEN WEATHER_CODE[code] ELSE "undefined"

\* `WEATHER_CODE[c.weather_code] || "—"` (the dash is written "-" here):
\* undefined and the empty string are falsy.
WeatherLabelNoFallback(code) == TableLookup(code)

WeatherLabel(code) ==
  IF TableLookup(code) \in {"undefined", ""} THEN "-" ELSE TableLookup(code)

\* useMemo `current`.
CurrentConvertsWind(wx, u) ==
  IF wx = Null THEN Null
  ELSE [temp |-> IF u = "C" THEN wx.current.temperature_2m
                            ELSE cToF(wx.current.temperature_2m),
        feels |-> IF u = "C" THEN wx.current.apparent_temperature
                             ELSE cToF(wx.current.apparent_temperature),
        isDay |-> wx.current.is_day # 0,
        wcode |-> wx.current.weather_code,
        wind |-> IF u = "C" THEN wx.current.wind_speed_10m
                            ELSE cToF(wx.current.wind_speed_10m),
        windDir |-> wx.current.wind_direction_10m,
        humidity |-> wx.current.relative_humidity_2m,
        label |-> WeatherLabel(wx.current.weather_code),
        unitSymbol |-> IF u = "C" THEN "C" ELSE "F"]

Current(wx, u) ==
  IF wx = Null THEN Null
  ELSE [temp |-> IF u = "C" THEN wx.current.temperature_2m
                            ELSE cToF(wx.current.temperature_2m),
        feels |-> IF u = "C" THEN wx.current.apparent_temperature
                             ELSE cToF(wx.current.apparent_temperature),
        isDay |-> wx.current.is_day # 0,
        wcode |-> wx.current.weather_code,
        wind |-> wx.current.wind_speed_10m,
        windDir |-> wx.current.wind_direction_10m,
        humidity |-> wx.current.relative_humidity_2m,
        label |-> WeatherLabel(wx.current.weather_code),
        unitSymbol |-> IF u = "C" THEN "C" ELSE "F"]

\* `t >= now` of the next12Hours loop.
IsUpcomingStrict(t, n) == t > n

IsUpcoming(t, n) == t >= n

\* `items.length < 12`, the second loop condition of next12Hours.
HOURS_LIMIT == 12

HasRoomUnlimited(items) == TRUE

HasRoom(items) == Len(items) < HOURS_LIMIT

\* `precipitation_probability?.[i] ?? 0`.
PopAt(hourly, i) ==
  IF "precipitation_probability" \in DOMAIN hourly
       /\ i \in DOMAIN hourly.precipitation_probability
    THEN hourly.precipitation_probability[i]
    ELSE 0

\* The for loop of next12Hours from index i on (1-based), items collected so far.
RECURSIVE HoursLoop(_, _, _, _, _)
HoursLoop(hourly, u, n, i, items) ==
  IF i <= Len(hourly.time) /\ HasRoom(items)
    THEN IF IsUpcoming(DateGetTime(hourly.time[i]), n)
           THEN HoursLoop(hourly, u, n, i + 1,
                  Append(items,
                    [time |-> hourly.time[i],
                     temp |-> IF u = "C" THEN hourly.temperature_2m[i]
                                         ELSE cToF(hourly.temperature_2m[i]),
                     pop |-> PopAt(hourly, i)]))
           ELSE HoursLoop(hourly, u, n, i + 1, items)
    ELSE items

\* The body of useMemo `next12Hours` evaluated at the instant n.
Next12Hours(wx, u, n) ==
  IF wx = Null THEN <<>> ELSE HoursLoop(wx.hourly, u, n, 1, <<>>)

\* useMemo [weather, unit]: the memoized list after a render in which the
\* dependencies went from (wx, u) to (wx2, u2); recomputed only on a change.
Memo(memo, wx, u, wx2, u2, n) ==
  IF wx2 # wx \/ u2 # u THEN Next12Hours(wx2, u2, n) ELSE memo

\* ------------------------------------------------------------------------
\* Place Search Controller: useEffect on [query]
\* ------------------------------------------------------------------------
\* Handle returned by setTimeout: an id no pending timer has.
NewTimerId(pending) ==
  CHOOSE n \in 1..(Cardinality(pending) + 1) : \A t \in pending : t.id # n

\* Cleanup of the previous effect run, `return () => clearTimeout(t)`: the
\* pending timers once the timer with handle h is cleared.
EffectCleanupKeepsTimer(pending, h) == pending

EffectCleanup(pending, h) == {t \in pending : t.id # h}

\* `if (!query) { setSuggestions([]); return; }`: the suggestion list after
\* the effect ran for query q.
EffectSuggestionsNotCleared(q, sugg) == sugg

EffectSuggestions(q, sugg) == IF q = "" THEN <<>> ELSE sugg

\* onChange -> setQuery(q) with a new value; the re-render runs the previous
\* effect's cleanup and then the effect body with the new query.
ChangeQuery(q) ==
  /\ q # query
  /\ query' = q
  /\ suggestions' = EffectSuggestions(q, suggestions)
  /\ LET cleared == EffectCleanup(timers, effectTimer)
         h == NewTimerId(cleared)
     IN  IF q = ""
           THEN /\ timers' = cleared
                /\ effectTimer' = 0
           ELSE /\ timers' = cleared \cup {[id |-> h, q |-> q]}
                /\ effectTimer' = h
  /\ coalesced' = (q # "" /\ \E t \in timers : t.id = effectTimer)
  /\ UNCHANGED <<abortRef, lookups, nLookups, logged, unit>>
  /\ UNCHANGED weatherVars
  /\ UNCHANGED viewVars

\* `if (abortRef.current) abortRef.current.abort()`: the lookups in flight
\* once the controller ref is aborted.
AbortPreviousSkipped(inflight, ref) == inflight

AbortPrevious(inflight, ref) ==
  {IF l.id = ref THEN [l EXCEPT !.aborted = TRUE] ELSE l : l \in inflight}

\* The 300 ms timer callback up to its first await: abort the previous
\* controller, install a new one, issue the lookup for the closure's query.
TimerFire(t) ==
  /\ t \in timers
  /\ nLookups < MaxLookups
  /\ timers' = timers \ {t}
  /\ nLookups' = nLookups + 1
  /\ abortRef' = nLookups + 1
  /\ lookups' = AbortPrevious(lookups, abortRef)
                  \cup {[id |-> nLookups + 1, req |-> GeoRequest(t.q), aborted |-> FALSE]}
  /\ UNCHANGED <<query, suggestions, effectTimer, logged, unit, coalesced>>
  /\ UNCHANGED weatherVars
  /\ UNCHANGED viewVars

\* `data?.results || []` for a response body with or without `results`.
ResultsOrEmpty(hasResults, req) == IF hasResults THEN GeoResults(req) ELSE <<>>

\* The callback's continuation after `await fetch` and `await res.json()`
\* of a lookup that was not aborted and got an ok response.
LookupSucceed(l, hasResults) ==
  /\ l \in lookups
  /\ ~l.aborted
  /\ suggestions' = ResultsOrEmpty(hasResults, l.req)
  /\ lookups' = lookups \ {l}
  /\ UNCHANGED <<query, abortRef, timers, effectTimer, nLookups, logged, unit, coalesced>>
  /\ UNCHANGED weatherVars
  /\ UNCHANGED viewVars

\* `if (e instanceof Error && e.name !== "AbortError") console.error(e)`.
ShouldLogAlways(e) == TRUE

ShouldLog(e) == e.isError /\ e.name # "AbortError"

\* The catch block for the thrown value e.
LookupCatch(l, e) ==
  /\ logged' = IF ShouldLog(e) THEN logged + 1 ELSE logged
  /\ lookups' = lookups \ {l}
  /\ UNCHANGED <<query, suggestions, abortRef, timers, effectTimer, nLookups,
                 unit, coalesced>>
  /\ UNCHANGED weatherVars
  /\ UNCHANGED viewVars

\* A lookup that was not aborted ends with a network error or `!res.ok`.
LookupFail(l, e) ==
  /\ l \in lookups
  /\ ~l.aborted
  /\ LookupCatch(l, e)

\* The fetch of an aborted lookup rejects with an AbortError.
LookupAborted(l) ==
  /\ l \in lookups
  /\ l.aborted
  /\ LookupCatch(l, AbortError)

\* ------------------------------------------------------------------------
\* Weather Fetch Controller: handlePick
\* ------------------------------------------------------------------------
NumPicks == Len(picked)

\* handlePick(place) up to `await fetch`; place is never null when called
\* from the suggestion list or the form.
HandlePick(place) ==
  /\ NumPicks < MaxPicks
  /\ selectedPlace' = place
  /\ suggestions' = <<>>
  /\ error' = ""
  /\ loading' = TRUE
  /\ weather' = Null
  /\ wxInFlight' = wxInFlight
                     \cup {[id |-> NumPicks + 1, req |-> WxRequest(place), place |-> place]}
  /\ picked' = Append(picked, place)
  /\ lastWx' = [ev |-> "pick", id |-> NumPicks + 1]
  /\ failedBeforePick' = anyFailed
  /\ UNCHANGED anyFailed
  /\ next12Hours' = Memo(next12Hours, weather, unit, Null, unit, now)
  /\ UNCHANGED <<query, abortRef, timers, effectTimer, lookups, nLookups, logged,
                 unit, coalesced, now, arg, result>>

\* onSubmit of the form: `if (suggestions.length > 0) handlePick(suggestions[0])`.
Submit ==
  /\ Len(suggestions) > 0
  /\ HandlePick(suggestions[1])

\* onClick of the i-th suggestion button: handlePick(s).
ClickSuggestion(i) ==
  /\ i \in 1..Len(suggestions)
  /\ HandlePick(suggestions[i])

\* handlePick after `await fetch` / `await wxRes.json()` of an ok response:
\* setWeather(wx), then the finally block.  wx is a freshly parsed object,
\* so the memo of next12Hours is recomputed in the render that follows.
WxSucceed(f) ==
  /\ f \in wxInFlight
  /\ weather' = WxData(f.req)
  /\ loading' = FALSE
  /\ wxInFlight' = wxInFlight \ {f}
  /\ lastWx' = [ev |-> "ok", id |-> f.id]
  /\ UNCHANGED <<picked, anyFailed, failedBeforePick>>
  /\ next12Hours' = Next12Hours(WxData(f.req), unit, now)
  /\ UNCHANGED <<query, suggestions, selectedPlace, error, abortRef, timers,
                 effectTimer, lookups, nLookups, logged, unit, coalesced,
                 now, arg, result>>

\* The message set by the catch block for the thrown value e.
ErrorMessage(e) ==
  IF e.isError
    THEN (IF e.message # "" THEN e.message ELSE "Something went wrong")
    ELSE "Something went wrong"

\* handlePick's catch and finally blocks for a failed fetch.
WxFailKeepsLoading(f, e) ==
  /\ f \in wxInFlight
  /\ error' = ErrorMessage(e)
  /\ wxInFlight' = wxInFlight \ {f}
  /\ lastWx' = [ev |-> "fail", id |-> f.id]
  /\ anyFailed' = TRUE
  /\ UNCHANGED <<picked, failedBeforePick, loading>>
  /\ UNCHANGED <<query, suggestions, selectedPlace, weather, abortRef, timers,
                 effectTimer, lookups, nLookups, logged, unit, coalesced>>
  /\ UNCHANGED viewVars

WxFail(f, e) ==
  /\ f \in wxInFlight
  /\ error' = ErrorMessage(e)
  /\ loading' = FALSE
  /\ wxInFlight' = wxInFlight \ {f}
  /\ lastWx' = [ev |-> "fail", id |-> f.id]
  /\ anyFailed' = TRUE
  /\ UNCHANGED <<picked, failedBeforePick>>
  /\ UNCHANGED <<query, suggestions, selectedPlace, weather, abortRef, timers,
                 effectTimer, lookups, nLookups, logged, unit, coalesced>>
  /\ UNCHANGED viewVars

\* onClick of a unit button: setUnit(u) with a new value.
SetUnit(u) ==
  /\ u # unit
  /\ unit' = u
  /\ next12Hours' = Memo(next12Hours, weather, unit, weather, u, now)
  /\ UNCHANGED <<query, suggestions, abortRef, timers, effectTimer, lookups,
                 nLookups, logged, coalesced, now, arg, result>>
  /\ UNCHANGED weatherVars

\* ------------------------------------------------------------------------
\* Specification
\* ------------------------------------------------------------------------
Next ==
  \/ \E q \in Queries : ChangeQuery(q)
  \/ \E t \in timers : TimerFire(t)
  \/ \E l \in lookups, hasResults \in BOOLEAN : LookupSucceed(l, hasResults)
  \/ \E l \in lookups, e \in LookupFailures : LookupFail(l, e)
  \/ \E l \in lookups : LookupAborted(l)
  \/ Submit
  \/ \E i \in 1..Len(suggestions) : ClickSuggestion(i)
  \/ \E f \in wxInFlight : WxSucceed(f)
  \/ \E f \in wxInFlight, e \in WxFailures : WxFail(f, e)
  \/ \E u \in Units : SetUnit(u)

Spec == Init /\ [][Next]_vars

\* ------------------------------------------------------------------------
\* The clock: Date.now() moves on while the component is mounted
\* ------------------------------------------------------------------------
\* Time passes; no state of the component changes and nothing is rendered.
Tick ==
  /\ now < NowStart + MaxTicks * TickMinutes
  /\ now' = now + TickMinutes
  /\ UNCHANGED <<query, suggestions, abortRef, timers, effectTimer, lookups,
                 nLookups, logged, coalesced, unit, next12Hours, arg, result>>
  /\ UNCHANGED weatherVars

NextClock ==
  \/ Next
  \/ Tick

SpecClock == Init /\ [][NextClock]_vars

\* ------------------------------------------------------------------------
\* Every weather fetch settles: the promise of fetch resolves or rejects
\* ------------------------------------------------------------------------
\* Some weather fetch in flight settles, with an ok response or a failure.
WxComplete ==
  \E f \in wxInFlight :
    \/ WxSucceed(f)
    \/ \E e \in WxFailures : WxFail(f, e)

\* The texts typed in the behaviours checked for progress: the box is filled
\* with a text that two places match, and cleared.
LiveQueries == {"", "Lon"}

\* The steps of searching, selecting and fetching; the unit preference,
\* which handlePick neither reads nor writes, stays as mounted.
NextLive ==
  \/ \E q \in LiveQueries : ChangeQuery(q)
  \/ \E t \in timers : TimerFire(t)
  \/ \E l \in lookups, hasResults \in BOOLEAN : LookupSucceed(l, hasResults)
  \/ \E l \in lookups, e \in LookupFailures : LookupFail(l, e)
  \/ \E l \in lookups : LookupAborted(l)
  \/ Submit
  \/ \E i \in 1..Len(suggestions) : ClickSuggestion(i)
  \/ \E f \in wxInFlight : WxSucceed(f)
  \/ \E f \in wxInFlight, e \in WxFailures : WxFail(f, e)

\* A fetch in flight is settled by the network: its promise resolves or
\* rejects, so the continuation of handlePick is eventually run.
SpecLive == Init /\ [][NextLive]_vars /\ WF_vars(WxComplete)

\* ------------------------------------------------------------------------
\* The search box with a query that many places match
\* ------------------------------------------------------------------------
\* The user types, lookups run, and the form is submitted, which picks the
\* first suggestion; the weather fetches of these picks settle.
NextSearch ==
  \/ \E q \in SearchQueries : ChangeQuery(q)
  \/ \E t \in timers : TimerFire(t)
  \/ \E l \in lookups, hasResults \in BOOLEAN : LookupSucceed(l, hasResults)
  \/ \E l \in lookups, e \in LookupFailures : LookupFail(l, e)
  \/ \E l \in lookups : LookupAborted(l)
  \/ Submit
  \/ \E f \in wxInFlight : WxSucceed(f)
  \/ \E f \in wxInFlight, e \in WxFailures : WxFail(f, e)

SpecSearch == Init /\ [][NextSearch]_vars

\* ------------------------------------------------------------------------
\* An hourly series of n entries from the hour `first` on, ascending or
\* descending, with or without precipitation probabilities.
HourlySeries(n, first, ascending, withPop) ==
  LET time == [i \in 1..n |->
                 HourString(IF ascending THEN first + i - 1 ELSE first + n - i)]
      temps == [i \in 1..n |-> 5 * ((3 * i) % 7) - 10]
      pops == [i \in 1..n |-> (10 * i) % 100]
  IN  IF withPop
        THEN [time |-> time, temperature_2m |-> temps,
              precipitation_probability |-> pops]
        ELSE [time |-> time, temperature_2m |-> temps]

\* A WeatherData with the given hourly series.
SnapshotWith(hourly) ==
  [current |-> [temperature_2m |-> 15, apparent_temperature |-> 10,
                is_day |-> 1, weather_code |-> 3, wind_speed_10m |-> 12,
                wind_direction_10m |-> 225, relative_humidity_2m |-> 80],
   hourly |-> hourly]

HoursInputs ==
  { [fn |-> "next12Hours", wx |-> wx, unit |-> u, now |-> n] :
      wx \in {Null} \cup
             { SnapshotWith(HourlySeries(len, first, asc, pop)) :
                 len \in 0..MaxHours, first \in {8, 9},
                 asc \in BOOLEAN, pop \in BOOLEAN },
      u \in Units,
      n \in {540, 570, 630} }

CompassInputs == { [fn |-> "degToCompass", deg |-> d] : d \in (-MaxDeg)..MaxDeg }

LabelInputs == { [fn |-> "label", code |-> c] : c \in (-1)..MaxCode }

InitView ==
  /\ Mounted
  /\ arg \in HoursInputs \cup CompassInputs \cup LabelInputs
  /\ result = Pending

notArgResult == <<query, suggestions, selectedPlace, weather, unit, loading, error,
                  abortRef, timers, effectTimer, lookups, nLookups, wxInFlight,
                  logged, picked, lastWx, anyFailed, failedBeforePick, coalesced,
                  now, next12Hours>>

\* degToCompass(current.windDir) in the render.
ApplyDegToCompass ==
  /\ arg # Null
  /\ arg.fn = "degToCompass"
  /\ result = Pending
  /\ result' = Returned(degToCompass(arg.deg))
  /\ UNCHANGED <<arg, notArgResult>>

\* `label: WEATHER_CODE[c.weather_code] || "-"` of `current`.
ApplyWeatherLabel ==
  /\ arg # Null
  /\ arg.fn = "label"
  /\ result = Pending
  /\ result' = Returned(WeatherLabel(arg.code))
  /\ UNCHANGED <<arg, notArgResult>>

\* The body of useMemo `next12Hours`.
ApplyNext12Hours ==
  /\ arg # Null
  /\ arg.fn = "next12Hours"
  /\ result = Pending
  /\ result' = Returned(Next12Hours(arg.wx, arg.unit, arg.now))
  /\ UNCHANGED <<arg, notArgResult>>

NextView ==
  \/ ApplyDegToCompass
  \/ ApplyWeatherLabel
  \/ ApplyNext12Hours

SpecView == InitView /\ [][NextView]_vars

\* ------------------------------------------------------------------------
\* Properties
\* ------------------------------------------------------------------------
LiveLookups == {l \in lookups : ~l.aborted}

\* Ids of the lookups in flight.
LookupIds(inflight) == {l.id : l \in inflight}

\* C1: whenever the query is changed to the empty string, in the same step
\* the suggestion list becomes empty, no debounce timer stays pending and no
\* lookup request is issued (the lookups in flight are left as they are).
C1_EmptyQueryClears ==
  [][(query # "" /\ query' = "")
       => /\ suggestions' = <<>>
          /\ timers' = {}
          /\ nLookups' = nLookups
          /\ lookups' = lookups]_vars

\* C1 witness: the query was emptied while a lookup was in flight; the list
\* is empty and no timer is pending.
C1_Witness ==
  /\ query = ""
  /\ lookups # {}
  /\ suggestions = <<>>
  /\ timers = {}

\* C2: at most one debounce timer is pending and it carries the current
\* query; a step that issues lookups issues exactly one, for the current
\* (last) query of the burst, and leaves no timer pending.
C2_DebounceCoalesces ==
  /\ [](/\ Cardinality(timers) <= 1
        /\ \A t \in timers : t.q = query /\ query # "")
  /\ [][(LookupIds(lookups') \ LookupIds(lookups) # {} \/ nLookups' # nLookups)
          => /\ nLookups' = nLookups + 1
             /\ \E l \in lookups' :
                  /\ LookupIds(lookups') \ LookupIds(lookups) = {l.id}
                  /\ l.req.name = query
                  /\ ~l.aborted
             /\ timers # {}
             /\ timers' = {}]_vars

\* C2 witness: a burst ending in "London", in which a pending timer was
\* replaced, has fired, and the only lookup ever issued carries "London".
C2_Witness ==
  /\ coalesced
  /\ query = "London"
  /\ nLookups = 1
  /\ timers = {}
  /\ \E l \in lookups : l.req.name = "London"

\* C3: at most one lookup is in flight and not aborted; a timer fire leaves
\* every earlier lookup aborted; a lookup that was aborted leaves without
\* writing the suggestion list.
C3_OneLiveLookup ==
  /\ [](Cardinality(LiveLookups) <= 1)
  /\ [][/\ nLookups' # nLookups
             => \A l \in lookups' : l.id <= nLookups => l.aborted
        /\ \A l \in lookups :
             (l.aborted /\ l.id \notin LookupIds(lookups'))
               => suggestions' = suggestions]_vars

\* C3 witness: an aborted lookup and its live successor are both in flight.
C3_Witness ==
  \E l1 \in lookups, l2 \in lookups : l1.aborted /\ ~l2.aborted /\ l1.id < l2.id

\* C4 (as claimed): a non-empty suggestion list is the result of the lookup
\* for the current query text.
C4_NoStaleSuggestions ==
  suggestions # <<>>
    => /\ query # ""
       /\ suggestions = GeoResults(GeoRequest(query))

\* C5: a lookup that leaves by abort or failure changes neither the
\* suggestion list, the error, the snapshot nor the loading flag; a failure
\* is logged once, an abort is not logged.
C5_FailedLookupKeepsState ==
  [][\A l \in lookups :
       (l.id \notin LookupIds(lookups') /\ (l.aborted \/ logged' # logged))
         => /\ suggestions' = suggestions
            /\ error' = error
            /\ weather' = weather
            /\ loading' = loading
            /\ selectedPlace' = selectedPlace
            /\ logged' = IF l.aborted THEN logged ELSE logged + 1]_vars

\* C5 witness: the lookup for "Lon" succeeded, the later lookup for "London"
\* failed and was logged, and the places found for "Lon" are still listed.
C5_Witness ==
  /\ query = "London"
  /\ timers = {}
  /\ lookups = {}
  /\ nLookups = 2
  /\ logged = 1
  /\ suggestions = <<LondonUK, LongBeach>>

\* C6: a selection step sets the selected place to a place of the list,
\* empties the list and the error, drops the snapshot, sets loading and
\* issues exactly one weather request with that place's coordinates.
C6_PickResets ==
  [][Len(picked') > Len(picked)
       => /\ \E i \in 1..Len(suggestions) : selectedPlace' = suggestions[i]
          /\ suggestions' = <<>>
          /\ error' = ""
          /\ weather' = Null
          /\ loading' = TRUE
          /\ \E f \in wxInFlight' :
               /\ f \notin wxInFlight
               /\ wxInFlight' = wxInFlight \cup {f}
               /\ f.req.latitude = NumToString(selectedPlace'.latitude)
               /\ f.req.longitude = NumToString(selectedPlace'.longitude)]_vars

\* C6 witness: a second selection made while an error was shown and a fetch
\* was in flight: the error is gone and two requests are in flight.
C6_Witness ==
  /\ selectedPlace = LongBeach
  /\ loading
  /\ weather = Null
  /\ error = ""
  /\ suggestions = <<>>
  /\ Cardinality(wxInFlight) = 2
  /\ anyFailed

\* C7 (as claimed): once a weather fetch has completed with a failure, the
\* snapshot is null, the error message is non-empty and loading is cleared.
C7_FailureClearsSnapshot ==
  lastWx.ev = "fail"
    => /\ weather = Null
       /\ error # ""
       /\ loading = FALSE

\* C8 (as claimed): when a fetch has failed, a place is selected after that
\* and the fetch of this newest selection succeeds, the error message is
\* empty and the snapshot is the response for that place.
C8_ErrorRecovery ==
  (/\ lastWx.ev = "ok"
   /\ lastWx.id = NumPicks
   /\ failedBeforePick)
    => /\ error = ""
       /\ weather = WxData(WxRequest(picked[NumPicks]))

\* C9 (as claimed): a non-null snapshot is the response to the fetch of the
\* most recent selection.
C9_NewestSelectionWins ==
  weather # Null
    => /\ lastWx.ev = "ok"
       /\ lastWx.id = NumPicks
       /\ weather = WxData(WxRequest(selectedPlace))

\* C10 (as claimed): after selecting A, B and A again, once all three
\* fetches have completed successfully, the current view is the view of A's
\* weather, as after the first selection.
C10_RoundTrip ==
  (/\ Len(picked) = 3
   /\ picked[1] = picked[3]
   /\ picked[1] # picked[2]
   /\ wxInFlight = {}
   /\ ~anyFailed)
    => Current(weather, unit) = Current(WxData(WxRequest(picked[1])), unit)

\* ------------------------------------------------------------------------
\* Properties of the view functions (SpecView)
\* ------------------------------------------------------------------------
\* The function fn has been applied to arg.
Applied(fn) == arg # Null /\ arg.fn = fn /\ result # Pending

\* C11: the upcoming-hours projection is <<>> without a snapshot; otherwise
\* it has min(12, k) entries, k the number of timestamps >= now, and its j-th
\* entry is the j-th such hour of the series, in the series' order, with the
\* temperature in the unit and the precipitation probability or 0.
C11_UpcomingHours ==
  Applied("next12Hours") =>
    IF arg.wx = Null THEN result.value = <<>>
    ELSE
      LET h == arg.wx.hourly
          out == result.value
          Q == {i \in 1..Len(h.time) : DateGetTime(h.time[i]) >= arg.now}
          k == Cardinality(Q)
          Nth(j) == CHOOSE i \in Q : Cardinality({m \in Q : m < i}) = j - 1
      IN  /\ Len(out) = IF k < 12 THEN k ELSE 12
          /\ \A j \in 1..Len(out) :
               /\ out[j].time = h.time[Nth(j)]
               /\ arg.unit = "C" => out[j].temp = h.temperature_2m[Nth(j)]
               /\ arg.unit = "F" =>
                    5 * (out[j].temp - 32) = 9 * h.temperature_2m[Nth(j)]
               /\ out[j].pop =
                    IF "precipitation_probability" \in DOMAIN h
                      THEN h.precipitation_probability[Nth(j)] ELSE 0

\* C11 witness: of 14 hours from 09:00 on, at 09:30 the first is past and 13
\* remain; the list holds the 12 hours from 10:00 on, in Fahrenheit.
C11_Witness ==
  /\ Applied("next12Hours")
  /\ arg.wx # Null
  /\ Len(arg.wx.hourly.time) = 14
  /\ arg.wx.hourly.time[1] = HourString(9)
  /\ arg.now = 570
  /\ arg.unit = "F"
  /\ Len(result.value) = 12
  /\ result.value[1].time = HourString(10)
  /\ result.value[12].time = HourString(21)

\* The compass label of the sector that holds d, for d in 0..359: sector s
\* of 22.5 degrees is centred on 22.5 * s.
SectorLabel(d) ==
  CHOOSE lbl \in {Dirs[i] : i \in 1..16} :
    \E s \in 0..15 : lbl = Dirs[s + 1] /\ ((4 * d + 45) % 1440) \in (90 * s)..(90 * s + 89)

\* C13: for deg in [0,360) degToCompass(deg) and degToCompass(deg + 360) are
\* both the label of the 22.5-degree sector nearest to deg; 360 gives "N".
C13_CompassLabels ==
  (Applied("degToCompass") /\ arg.deg \in 0..719)
    => /\ result.value \in {Dirs[i] : i \in 1..16}
       /\ result.value = SectorLabel(arg.deg % 360)
       /\ arg.deg = 360 => result.value = "N"

\* C13 witness: 349 + 360 degrees has been mapped to "N", like 349.
C13_Witness ==
  /\ Applied("degToCompass")
  /\ arg.deg = 709
  /\ result.value = "N"

\* The codes of the WEATHER_CODE table.
TableCodes ==
  {0, 1, 2, 3, 45, 48, 51, 53, 55, 56, 57, 61, 63, 65, 66, 67, 71, 73, 75, 77,
   80, 81, 82, 85, 86, 95, 96, 99}

\* C14: the label of a code outside the table is the placeholder, the label
\* of a code of the table is its entry, and it is never undefined or empty.
C14_WeatherLabel ==
  Applied("label")
    => /\ arg.code \notin TableCodes => result.value = "-"
       /\ arg.code \in TableCodes => result.value = WEATHER_CODE[arg.code]
       /\ result.value \notin {"undefined", ""}

\* C14 witness: code 4, which the table does not have, got the placeholder.
C14_Witness ==
  /\ Applied("label")
  /\ arg.code = 4
  /\ result.value = "-"

\* C18 (as claimed): for every integer deg, negative ones and those >= 360
\* included, degToCompass gives the label of deg normalized into [0,360).
C18_CompassWraps ==
  Applied("degToCompass")
    => /\ result.value \in {Dirs[i] : i \in 1..16}
       /\ result.value = SectorLabel(arg.deg % 360)

\* ------------------------------------------------------------------------
\* Properties of the unit preference and of the weather state machine
\* ------------------------------------------------------------------------
\* C12: a step that changes the unit changes nothing else of the stored
\* state (snapshot, query, suggestions, selected place, loading, error) and
\* issues no lookup or weather request; of the current view only temp,
\* feels and unitSymbol differ, temp and feels being the same temperature
\* in the other unit.
C12_UnitToggleFrame ==
  [][unit' # unit =>
       /\ UNCHANGED <<weather, query, suggestions, selectedPlace, loading, error>>
       /\ UNCHANGED <<lookups, nLookups, wxInFlight, timers, abortRef>>
       /\ weather # Null =>
            LET c == Current(weather, unit)
                d == Current(weather', unit')
                f == IF unit' = "F" THEN d ELSE c
                g == IF unit' = "F" THEN c ELSE d
            IN  /\ d.isDay = c.isDay
                /\ d.wcode = c.wcode
                /\ d.wind = c.wind
                /\ d.windDir = c.windDir
                /\ d.humidity = c.humidity
                /\ d.label = c.label
                /\ d.unitSymbol = unit'
                /\ c.unitSymbol = unit
                /\ 5 * (f.temp - 32) = 9 * g.temp
                /\ 5 * (f.feels - 32) = 9 * g.feels
                /\ g.temp = weather.current.temperature_2m
                /\ g.feels = weather.current.apparent_temperature
  ]_vars

\* The unit was toggled to Fahrenheit while London's snapshot is shown.
C12_Witness ==
  /\ unit = "F"
  /\ weather # Null
  /\ weather.current.temperature_2m = 15
  /\ Current(weather, unit).temp = 59
  /\ Current(weather, unit).wind = 12

\* C16 (as claimed): at most one of: loading is true, the snapshot is
\* non-null, the error message is non-empty.
C16_OneControllerState ==
  /\ ~(loading /\ weather # Null)
  /\ ~(loading /\ error # "")
  /\ ~(weather # Null /\ error # "")

\* C17: if every weather fetch in flight eventually settles, loading
\* eventually becomes false, and once false it becomes true only in a step
\* that makes a selection.
C17_LoadingSettles ==
  /\ loading ~> ~loading
  /\ [][(~loading /\ loading') => Len(picked') = Len(picked) + 1]_vars

\* Two selections were made, both fetches have settled and loading is false.
C17_Witness ==
  /\ Len(picked) = 2
  /\ wxInFlight = {}
  /\ lastWx.ev \in {"ok", "fail"}
  /\ ~loading

\* C19 (as claimed): no entry of the displayed hourly list has a timestamp
\* earlier than the current instant.
C19_NoPastHours ==
  \A j \in 1..Len(next12Hours) : DateGetTime(next12Hours[j].time) >= now

\* C20 (as claimed): loading is true exactly when some weather fetch is in
\* flight.
C20_LoadingTracksRequests ==
  loading <=> wxInFlight # {}

\* ------------------------------------------------------------------------
\* Properties of the suggestion list (SpecSearch)
\* ------------------------------------------------------------------------
\* C15: the suggestion list never holds more than 5 places, and the step in
\* which a lookup succeeds sets the list to the empty list (response without
\* results) or to the first 5 matches of the lookup's name, whatever the
\* list was before.
C15_SuggestionCap ==
  /\ [](Len(suggestions) <= 5)
  /\ [][\A l \in lookups :
          (~l.aborted /\ lookups' = lookups \ {l} /\ logged' = logged)
            => \/ suggestions' = <<>>
               \/ LET all == GeoMatches(l.req.name)
                  IN  /\ Len(suggestions') = (IF Len(all) < 5 THEN Len(all) ELSE 5)
                      /\ \A i \in 1..Len(suggestions') : suggestions'[i] = all[i]
     ]_vars

\* A lookup for a name with six matches has filled the list with five.
C15_Witness ==
  /\ Len(suggestions) = 5
  /\ suggestions[5] = Lisbon
  /\ Len(GeoMatches(EncodeURIComponent("L"))) = 6

====
